---- MODULE Spec2Model ----
(***************************************************************************)
(* Model of algorithms/tree: the generic Tree of abstract_tree.py and the  *)
(* BinarySearchTree of bst.py.                                             *)
(*                                                                         *)
(* A binary node is the 1-tuple <<[key, value, left, right]>> and an       *)
(* absent node (Python None) is the empty tuple.  BST nodes are created    *)
(* only by _insert and are never shared, so the in-place assignments of    *)
(* bst.py are modelled by rebuilding the path from the root.               *)
(*                                                                         *)
(* Keys are integers.  Positive keys model Python ints; negative keys      *)
(* model Python strs, which cannot be ordered against ints ("<" and ">"    *)
(* raise TypeError) but can be tested with "==" (False).                   *)
(* Values are naturals; 0 is Python None.                                  *)
(*                                                                         *)
(* bst.py imports BinaryTree, BinaryNode and decorate_all_methods, which   *)
(* the modelled sources do not define.  They are taken as the spec has     *)
(* them: a BinaryNode holds key, value, left and right (both absent when   *)
(* built); a BinaryTree starts with root None and size 0, both plain       *)
(* attributes; decorate_all_methods wraps every method in the decorator.   *)
(*                                                                         *)
(* Generic Nodes live in a heap, so that two trees can share Nodes and     *)
(* children lists.  A generic tree is built the way the module's own       *)
(* __main__ block builds one: tree._root = Node(d), then                   *)
(* node.children = [Node(d), ...] on a Node that has no children yet.      *)
(*                                                                         *)
(* The generator in_order_traverse() returns is also run one next() at a   *)
(* time, interleaved with inserts: its frames refer to node objects and    *)
(* read their left and right children in the tree as it is at that step.   *)
(***************************************************************************)
EXTENDS Integers, Sequences, FiniteSets, TLC

VARIABLES
    root,       \* BinarySearchTree.root : the root node or None
    size,       \* BinarySearchTree.size
    call,       \* the last BinarySearchTree method called and its arguments
    outcome,    \* what that call raised and returned
    pre,        \* root and size as they were when that call started
    heap,       \* the Node objects and the list objects of the generic trees
    trees,      \* the generic Tree objects: trees[t] = [_root, _size]
    tcall,      \* the last operation on a generic Tree and its arguments
    toutcome,   \* what that operation raised, yielded and returned
    tpre,       \* heap and trees as they were when that operation started,
                \* kept for the operations that change a tree
    gen,        \* the generator in_order_traverse() returned: its status and
                \* its suspended frames, outermost first
    yielded,    \* the keys of the nodes that generator has yielded so far
    inserted    \* the inserts made since that generator was created

bstVars == <<root, size, call, outcome, pre>>
treeVars == <<heap, trees, tcall, toutcome, tpre>>
genVars == <<gen, yielded, inserted>>
vars == <<root, size, call, outcome, pre, heap, trees, tcall, toutcome, tpre,
          gen, yielded, inserted>>

----------------------------------------------------------------------------
(* Bounds *)

MaxKey == 3         \* int keys are 1..MaxKey
MaxVal == 1         \* values are 0 (None) and 1..MaxVal
MaxSize == 4        \* insert is not called once the size counter is MaxSize
MaxNodes == 4       \* Node objects the generic trees may own at one time
MaxChildren == 2    \* longest children list assigned to a Node
MaxInserts == 3      \* inserts made while one generator is live
MaxTrees == 2       \* generic Tree objects: the first tree and its copies

IntKeys == 1..MaxKey
StrKeys == {-1}     \* one str key, which no int key can be ordered against
Keys == IntKeys \cup StrKeys
Values == 0..MaxVal

----------------------------------------------------------------------------
(* Python values *)

None == <<>>
NoneValue == 0

KeyType(k) == IF k > 0 THEN "int" ELSE "str"

\* What a call raised: exc is "none", or the exception class; op is the
\* operator a TypeError message starts with ("'<' not supported ...").
NoExc == [exc |-> "none", op |-> ""]
TypeError(o) == [exc |-> "TypeError", op |-> o]
ValueError == [exc |-> "ValueError", op |-> ""]

\* key < other and key > other on Python ints and strs
Orderable(a, b) == KeyType(a) = KeyType(b)

BinaryNode(key, value) ==
    <<[key |-> key, value |-> value, left |-> None, right |-> None]>>

----------------------------------------------------------------------------
(* abstract_tree.py *)

\* Node objects and list objects live in a heap: heap.nodes[n] is the Node
\* with identity n, [data, children], where children is the identity of a
\* list object; heap.lists[l] is the sequence of its entries, each a Node
\* identity or NoNode.  Identities are positions, so NoNode is no identity.
NoNode == 0
EmptyHeap == [nodes |-> <<>>, lists |-> <<>>]

Raise(e, message) == [exc |-> e, op |-> message]

\* Node.__init__: a new Node with a new empty children list
Node(h, data) ==
    [heap |-> [nodes |-> Append(h.nodes, [data |-> data, children |-> Len(h.lists) + 1]),
               lists |-> Append(h.lists, <<>>)],
     node |-> Len(h.nodes) + 1]

\* Node.copy: new = self.__class__(self.data); new.children = self.children
NodeCopy(h, self) ==
    LET new == Node(h, h.nodes[self].data) IN
    [heap |-> [new.heap EXCEPT !.nodes[new.node].children = h.nodes[self].children],
     node |-> new.node]

Children(h, node) == h.lists[h.nodes[node].children]

\* Tree.copy.recur_copy returns [heap, node, size].  The loop binds the copy
\* of each child to its own variable child and keeps only size: the
\* copies of the children are reachable from nowhere once the call returns
\* and are not kept in the heap.
RECURSIVE recur_copy(_, _)
RECURSIVE recur_copy_loop(_, _, _)
recur_copy(h, node) ==
    IF node = NoNode
    THEN [heap |-> h, node |-> NoNode, size |-> 0]
    ELSE LET new == NodeCopy(h, node)
             new_size == recur_copy_loop(new.heap, Children(new.heap, new.node), 1)
         IN  [heap |-> new.heap, node |-> new.node, size |-> 1 + new_size]

recur_copy_loop(h, children, new_size) ==
    IF children = <<>>
    THEN new_size
    ELSE recur_copy_loop(h, Tail(children),
                         new_size + recur_copy(h, Head(children)).size)

\* Node.__slots__: the attributes a Node has
NodeSlots == {"data", "children"}

\* node.name: [raised, value]
ReadSlot(h, node, name) ==
    IF name \in NodeSlots
    THEN [raised |-> NoExc, value |-> h.nodes[node][name]]
    ELSE [raised |-> Raise("AttributeError", name), value |-> NoNode]

\* Tree.recur_height: [raised, value]
RECURSIVE recur_height(_, _)
recur_height(h, node) ==
    IF node = NoNode
    THEN [raised |-> NoExc, value |-> -1]
    ELSE LET left == ReadSlot(h, node, "left") IN
         IF left.raised # NoExc THEN [raised |-> left.raised, value |-> 0]
         ELSE LET l == recur_height(h, left.value) IN
         IF l.raised # NoExc THEN l
         ELSE LET right == ReadSlot(h, node, "right") IN
         IF right.raised # NoExc THEN [raised |-> right.raised, value |-> 0]
         ELSE LET r == recur_height(h, right.value) IN
         IF r.raised # NoExc THEN r
         ELSE [raised |-> NoExc,
               value |-> 1 + (IF l.value > r.value THEN l.value ELSE r.value)]

\* Tree.root: [raised, data]
Tree_root(h, tree) ==
    IF tree._root = NoNode
    THEN [raised |-> Raise("KeyError", "No root in an empty tree"), data |-> 0]
    ELSE [raised |-> NoExc, data |-> h.nodes[tree._root].data]

Tree_size(tree) == tree._size

Tree_isEmpty(tree) == Tree_size(tree) = 0

\* the sequences of Nodes the traversal generators yield when consumed
RECURSIVE recur_pre_order_traverse(_, _)
RECURSIVE recur_pre_order_loop(_, _)
recur_pre_order_traverse(h, node) ==
    IF node = NoNode THEN <<>>
    ELSE <<node>> \o recur_pre_order_loop(h, Children(h, node))

recur_pre_order_loop(h, children) ==
    IF children = <<>> THEN <<>>
    ELSE recur_pre_order_traverse(h, Head(children))
            \o recur_pre_order_loop(h, Tail(children))

\* post-order that yields a node before its children
recur_post_order_node_first(h, node) == recur_pre_order_traverse(h, node)

RECURSIVE recur_post_order_traverse(_, _)
RECURSIVE recur_post_order_loop(_, _)
recur_post_order_traverse(h, node) ==
    IF node = NoNode THEN <<>>
    ELSE recur_post_order_loop(h, Children(h, node)) \o <<node>>

recur_post_order_loop(h, children) ==
    IF children = <<>> THEN <<>>
    ELSE recur_post_order_traverse(h, Head(children))
            \o recur_post_order_loop(h, Tail(children))

\* queue.Queue: first in, first out
Queue == <<>>
enqueue(q, item) == Append(q, item)
\* the children pushed in front of the waiting Nodes
enqueue_all_in_front(q, items) == items \o q
enqueue_all(q, items) == q \o items
dequeue(q) == [item |-> Head(q), queue |-> Tail(q)]
isEmpty(q) == q = <<>>

RECURSIVE breadth_first_order_loop(_, _)
breadth_first_order_loop(h, q) ==
    IF isEmpty(q) THEN <<>>
    ELSE LET d == dequeue(q) IN
         IF d.item # NoNode
         THEN <<d.item>> \o breadth_first_order_loop(h, enqueue_all(d.queue, Children(h, d.item)))
         ELSE breadth_first_order_loop(h, d.queue)

breadth_first_order_traverse(h, _root) ==
    breadth_first_order_loop(h, enqueue(Queue, _root))

default_traversal_order == "breadth_first_order"

\* The attributes of class Tree whose names end in "_traverse", each with the
\* number of positional parameters it requires besides self.
TreeAttributes ==
    [a \in {"_traverse", "pre_order_traverse", "recur_pre_order_traverse",
            "post_order_traverse", "recur_post_order_traverse",
            "breadth_first_order_traverse"} |->
        IF a \in {"_traverse", "recur_pre_order_traverse", "recur_post_order_traverse"}
        THEN 1 ELSE 0]

\* getattr(self, name)
getattr(name) ==
    IF name \in DOMAIN TreeAttributes
    THEN [raised |-> NoExc, attr |-> name]
    ELSE [raised |-> Raise("AttributeError", name), attr |-> ""]

\* attr(): the call with no argument of a method found by getattr
CallNoArgs(h, _root, attr) ==
    IF TreeAttributes[attr] > 0
    THEN [raised |-> Raise("TypeError", "missing required positional argument"),
          nodes |-> <<>>]
    ELSE [raised |-> NoExc,
          nodes |-> CASE attr = "pre_order_traverse" -> recur_pre_order_traverse(h, _root)
                      [] attr = "post_order_traverse" -> recur_post_order_traverse(h, _root)
                      [] attr = "breadth_first_order_traverse" ->
                             breadth_first_order_traverse(h, _root)]

\* order is [kind, name]: kind is "str" for a string, whose text is name,
\* and the Python type's name otherwise
_traverse(h, _root, order) ==
    IF order.kind # "str"
    THEN [raised |-> Raise("ValueError", "order should be string."), nodes |-> <<>>]
    ELSE LET found == getattr(order.name \o "_traverse") IN
         IF found.raised.exc = "AttributeError"
         THEN [raised |-> Raise("ValueError", "Wrong ordering chosen."), nodes |-> <<>>]
         ELSE CallNoArgs(h, _root, found.attr)

\* list(tree.traverse(order)): [raised, out], out the payloads yielded
traverse(h, _root, order) ==
    LET chosen == IF order.kind = "NoneType"
                  THEN [kind |-> "str", name |-> default_traversal_order]
                  ELSE order
        r == _traverse(h, _root, chosen)
    IN  [raised |-> r.raised,
         out |-> [i \in DOMAIN r.nodes |-> h.nodes[r.nodes[i]].data]]

----------------------------------------------------------------------------
(* bst.py *)

error_messages == {"<", ">", "==", ">=", "<="}

\* check_comparable with "'>' not supported" missing from error_messages
check_comparable_less_only(r) ==
    IF r.raised.exc = "TypeError" /\ r.raised.op \in (error_messages \ {">"})
    THEN [r EXCEPT !.raised = ValueError]
    ELSE r

\* r is the result of the wrapped function: [raised, ...]
check_comparable(r) ==
    IF r.raised.exc = "TypeError" /\ r.raised.op \in error_messages
    THEN [r EXCEPT !.raised = ValueError]
    ELSE r

decorate_all_methods(r) == check_comparable(r)

\* _insert without the overwrite of line 95
RECURSIVE _insert_keep_old_value(_, _, _, _)
_insert_keep_old_value(node, key, value, sz) ==
    IF node = None
    THEN [raised |-> NoExc, node |-> BinaryNode(key, value), size |-> sz + 1]
    ELSE LET n == node[1] IN
         IF key = n.key
         THEN [raised |-> NoExc, node |-> node, size |-> sz]
         ELSE IF ~Orderable(key, n.key)
         THEN [raised |-> TypeError("<"), node |-> node, size |-> sz]
         ELSE IF key < n.key
         THEN LET r == _insert_keep_old_value(n.left, key, value, sz) IN
              [raised |-> r.raised, node |-> <<[n EXCEPT !.left = r.node]>>, size |-> r.size]
         ELSE LET r == _insert_keep_old_value(n.right, key, value, sz) IN
              [raised |-> r.raised, node |-> <<[n EXCEPT !.right = r.node]>>, size |-> r.size]

\* Returns [raised, node, size]: what the call raised, the node it returned
\* (when it raised: the node it was given, as the call left it) and self.size.
\* A recursive call that raises leaves its subtree as it was, so rebuilding
\* the parent around r.node is then the identity.
RECURSIVE _insert(_, _, _, _)
_insert(node, key, value, sz) ==
    IF node = None
    THEN [raised |-> NoExc, node |-> BinaryNode(key, value), size |-> sz + 1]
    ELSE LET n == node[1] IN
         IF key = n.key
         THEN [raised |-> NoExc, node |-> <<[n EXCEPT !.value = value]>>, size |-> sz]
         ELSE IF ~Orderable(key, n.key)
         THEN [raised |-> TypeError("<"), node |-> node, size |-> sz]
         ELSE IF key < n.key
         THEN LET r == _insert(n.left, key, value, sz) IN
              [raised |-> r.raised, node |-> <<[n EXCEPT !.left = r.node]>>, size |-> r.size]
         ELSE LET r == _insert(n.right, key, value, sz) IN
              [raised |-> r.raised, node |-> <<[n EXCEPT !.right = r.node]>>, size |-> r.size]

\* _find raising the empty-tree KeyError of Tree.root where it meets None
RECURSIVE _find_raising(_, _)
_find_raising(node, key) ==
    IF node = None
    THEN [raised |-> [exc |-> "KeyError", op |-> ""], value |-> NoneValue]
    ELSE LET n == node[1] IN
         IF key = n.key
         THEN [raised |-> NoExc, value |-> n.value]
         ELSE IF ~Orderable(key, n.key)
         THEN [raised |-> TypeError(">"), value |-> NoneValue]
         ELSE IF key > n.key
         THEN _find_raising(n.right, key)
         ELSE _find_raising(n.left, key)

RECURSIVE _find(_, _)
_find(node, key) ==
    IF node = None
    THEN [raised |-> NoExc, value |-> NoneValue]
    ELSE LET n == node[1] IN
         IF key = n.key
         THEN [raised |-> NoExc, value |-> n.value]
         ELSE IF ~Orderable(key, n.key)
         THEN [raised |-> TypeError(">"), value |-> NoneValue]
         ELSE IF key > n.key
         THEN _find(n.right, key)
         ELSE _find(n.left, key)

RECURSIVE _find_max_node(_)
_find_max_node(node) ==
    IF node = None THEN None
    ELSE IF node[1].right = None THEN node
    ELSE _find_max_node(node[1].right)

RECURSIVE _find_min_node(_)
_find_min_node(node) ==
    IF node = None THEN None
    ELSE IF node[1].left = None THEN node
    ELSE _find_min_node(node[1].left)

\* target.<side> = new, for the node object target inside the subtree sub
\* (a node object is identified by its key, which no other node of sub has)
RECURSIVE AssignChild(_, _, _, _)
AssignChild(sub, target, side, new) ==
    IF sub = None THEN None
    ELSE IF sub[1].key = target[1].key
    THEN <<[sub[1] EXCEPT ![side] = new]>>
    ELSE <<[sub[1] EXCEPT !.left = AssignChild(sub[1].left, target, side, new),
                          !.right = AssignChild(sub[1].right, target, side, new)]>>

\* _delete_THE_node splicing at the left subtree's minimum instead of its maximum
_delete_THE_node_at_min(node) ==
    IF node = None THEN None
    ELSE IF node[1].left # None
    THEN LET left_min_node == _find_min_node(node[1].left) IN
         AssignChild(node[1].left, left_min_node, "left", node[1].right)
    ELSE node[1].right

\* _delete_THE_node without the re-link of line 142
_delete_THE_node_no_relink(node) ==
    IF node = None THEN None
    ELSE IF node[1].left # None
    THEN node[1].left
    ELSE node[1].right

_delete_THE_node(node) ==
    IF node = None THEN None
    ELSE IF node[1].left # None
    THEN LET left_max_node == _find_max_node(node[1].left) IN
         AssignChild(node[1].left, left_max_node, "right", node[1].right)
    ELSE node[1].right

\* delete that counts a key it did not find as removed
RECURSIVE _delete_counting_absent(_, _, _)
_delete_counting_absent(node, key, sz) ==
    IF node = None
    THEN [raised |-> NoExc, node |-> None, size |-> sz - 1]
    ELSE LET n == node[1] IN
         IF key = n.key
         THEN [raised |-> NoExc, node |-> _delete_THE_node(node), size |-> sz - 1]
         ELSE IF ~Orderable(key, n.key)
         THEN [raised |-> TypeError("<"), node |-> node, size |-> sz]
         ELSE IF key < n.key
         THEN LET r == _delete_counting_absent(n.left, key, sz) IN
              [raised |-> r.raised, node |-> <<[n EXCEPT !.left = r.node]>>, size |-> r.size]
         ELSE LET r == _delete_counting_absent(n.right, key, sz) IN
              [raised |-> r.raised, node |-> <<[n EXCEPT !.right = r.node]>>, size |-> r.size]

RECURSIVE _delete(_, _, _)
_delete(node, key, sz) ==
    IF node = None
    THEN [raised |-> NoExc, node |-> None, size |-> sz]
    ELSE LET n == node[1] IN
         IF key = n.key
         THEN [raised |-> NoExc, node |-> _delete_THE_node(node), size |-> sz - 1]
         ELSE IF ~Orderable(key, n.key)
         THEN [raised |-> TypeError("<"), node |-> node, size |-> sz]
         ELSE IF key < n.key
         THEN LET r == _delete(n.left, key, sz) IN
              [raised |-> r.raised, node |-> <<[n EXCEPT !.left = r.node]>>, size |-> r.size]
         ELSE LET r == _delete(n.right, key, sz) IN
              [raised |-> r.raised, node |-> <<[n EXCEPT !.right = r.node]>>, size |-> r.size]

RECURSIVE _delete_min_node(_, _)
_delete_min_node(node, sz) ==
    IF node = None
    THEN [raised |-> NoExc, node |-> None, size |-> sz]
    ELSE IF node[1].left = None
    THEN [raised |-> NoExc, node |-> None, size |-> sz - 1]
    ELSE LET r == _delete_min_node(node[1].left, sz) IN
         [raised |-> NoExc, node |-> <<[node[1] EXCEPT !.left = r.node]>>, size |-> r.size]

RECURSIVE _delete_max_node(_, _)
_delete_max_node(node, sz) ==
    IF node = None
    THEN [raised |-> NoExc, node |-> None, size |-> sz]
    ELSE IF node[1].right = None
    THEN [raised |-> NoExc, node |-> None, size |-> sz - 1]
    ELSE LET r == _delete_max_node(node[1].right, sz) IN
         [raised |-> NoExc, node |-> <<[node[1] EXCEPT !.right = r.node]>>, size |-> r.size]

\* the sequence of nodes the generator yields when consumed to the end
RECURSIVE _in_order_traverse(_)
_in_order_traverse(node) ==
    IF node = None THEN <<>>
    ELSE _in_order_traverse(node[1].left) \o <<node[1]>> \o _in_order_traverse(node[1].right)

\* height that counts a childless node as 0, as generic trees are meant to
RECURSIVE _height_childless_zero(_)
_height_childless_zero(node) ==
    IF node = None THEN -1
    ELSE LET l == _height_childless_zero(node[1].left)
             r == _height_childless_zero(node[1].right)
         IN  1 + (IF l > r THEN l ELSE r)

RECURSIVE _height(_)
_height(node) ==
    IF node = None THEN 0
    ELSE LET l == _height(node[1].left)
             r == _height(node[1].right)
         IN  1 + (IF l > r THEN l ELSE r)

\* out-order that yields a node before its right subtree
RECURSIVE _out_order_traverse_node_first(_)
_out_order_traverse_node_first(node) ==
    IF node = None THEN <<>>
    ELSE <<node[1]>> \o _out_order_traverse_node_first(node[1].right)
            \o _out_order_traverse_node_first(node[1].left)

RECURSIVE _out_order_traverse(_)
_out_order_traverse(node) ==
    IF node = None THEN <<>>
    ELSE _out_order_traverse(node[1].right) \o <<node[1]>> \o _out_order_traverse(node[1].left)

----------------------------------------------------------------------------
(* BinarySearchTree methods *)

Called(o, k, v) == [op |-> o, key |-> k, value |-> v]

NoOrder == [kind |-> "NoneType", name |-> ""]
TreeCalled(o, t, n, ord) == [op |-> o, tree |-> t, node |-> n, order |-> ord]
NotKept == [heap |-> EmptyHeap, trees |-> <<>>]

\* No generator yet.  A frame of a generator is [key, at]: the key of the node
\* the frame runs on and the yield it is suspended at.
NoGenerator == [status |-> "none", start |-> None, frames |-> <<>>]

\* What an operation on a Tree gave: the exception raised, the payloads
\* yielded, the Tree returned (NoTree if none) and the number returned.
NoTree == 0
TreeGave(r, o, t, v) == [raised |-> r, out |-> o, tree |-> t, value |-> v]
Nothing == TreeGave(NoExc, <<>>, NoTree, 0)

Init ==
    /\ root = None
    /\ size = 0
    /\ call = Called("init", 0, NoneValue)
    /\ outcome = [raised |-> NoExc, value |-> NoneValue, node |-> None, nodes |-> <<>>]
    /\ pre = [root |-> None, size |-> 0]
    /\ heap = EmptyHeap
    /\ trees = <<[_root |-> NoNode, _size |-> 0]>>
    /\ tcall = TreeCalled("init", 1, NoNode, NoOrder)
    /\ toutcome = Nothing
    /\ tpre = NotKept
    /\ gen = NoGenerator
    /\ yielded = <<>>
    /\ inserted = {}

insert(key, value) ==
    /\ size < MaxSize
    /\ LET r == decorate_all_methods(_insert(root, key, value, size)) IN
       /\ root' = r.node
       /\ size' = r.size
       /\ outcome' = [raised |-> r.raised, value |-> NoneValue, node |-> None, nodes |-> <<>>]
    /\ call' = Called("insert", key, value)
    /\ pre' = [root |-> root, size |-> size]
    /\ UNCHANGED <<treeVars, genVars>>

find(key) ==
    /\ LET r == decorate_all_methods(_find(root, key)) IN
       outcome' = [raised |-> r.raised, value |-> r.value, node |-> None, nodes |-> <<>>]
    /\ call' = Called("find", key, NoneValue)
    /\ pre' = [root |-> root, size |-> size]
    /\ UNCHANGED <<treeVars, genVars>>
    /\ UNCHANGED <<root, size>>

delete(key) ==
    /\ LET r == decorate_all_methods(_delete(root, key, size)) IN
       /\ root' = r.node
       /\ size' = r.size
       /\ outcome' = [raised |-> r.raised, value |-> NoneValue, node |-> None, nodes |-> <<>>]
    /\ call' = Called("delete", key, NoneValue)
    /\ pre' = [root |-> root, size |-> size]
    /\ UNCHANGED <<treeVars, genVars>>

delete_min_node ==
    /\ LET r == decorate_all_methods(_delete_min_node(root, size)) IN
       /\ root' = r.node
       /\ size' = r.size
       /\ outcome' = [raised |-> r.raised, value |-> NoneValue, node |-> None, nodes |-> <<>>]
    /\ call' = Called("delete_min_node", 0, NoneValue)
    /\ pre' = [root |-> root, size |-> size]
    /\ UNCHANGED <<treeVars, genVars>>

delete_max_node ==
    /\ LET r == decorate_all_methods(_delete_max_node(root, size)) IN
       /\ root' = r.node
       /\ size' = r.size
       /\ outcome' = [raised |-> r.raised, value |-> NoneValue, node |-> None, nodes |-> <<>>]
    /\ call' = Called("delete_max_node", 0, NoneValue)
    /\ pre' = [root |-> root, size |-> size]
    /\ UNCHANGED <<treeVars, genVars>>

find_min_node ==
    /\ LET r == decorate_all_methods([raised |-> NoExc, node |-> _find_min_node(root)]) IN
       outcome' = [raised |-> r.raised, value |-> NoneValue, node |-> r.node, nodes |-> <<>>]
    /\ call' = Called("find_min_node", 0, NoneValue)
    /\ pre' = [root |-> root, size |-> size]
    /\ UNCHANGED <<treeVars, genVars>>
    /\ UNCHANGED <<root, size>>

find_max_node ==
    /\ LET r == decorate_all_methods([raised |-> NoExc, node |-> _find_max_node(root)]) IN
       outcome' = [raised |-> r.raised, value |-> NoneValue, node |-> r.node, nodes |-> <<>>]
    /\ call' = Called("find_max_node", 0, NoneValue)
    /\ pre' = [root |-> root, size |-> size]
    /\ UNCHANGED <<treeVars, genVars>>
    /\ UNCHANGED <<root, size>>

\* bst.height
height ==
    /\ outcome' = [raised |-> NoExc, value |-> _height(root), node |-> None, nodes |-> <<>>]
    /\ call' = Called("height", 0, NoneValue)
    /\ pre' = [root |-> root, size |-> size]
    /\ UNCHANGED <<treeVars, genVars>>
    /\ UNCHANGED <<root, size>>

\* list(bst.in_order_traverse())
in_order_traverse ==
    /\ LET r == decorate_all_methods([raised |-> NoExc, nodes |-> _in_order_traverse(root)]) IN
       outcome' = [raised |-> r.raised, value |-> NoneValue, node |-> None, nodes |-> r.nodes]
    /\ call' = Called("in_order_traverse", 0, NoneValue)
    /\ pre' = [root |-> root, size |-> size]
    /\ UNCHANGED <<treeVars, genVars>>
    /\ UNCHANGED <<root, size>>

\* list(bst.out_order_traverse())
out_order_traverse ==
    /\ LET r == decorate_all_methods([raised |-> NoExc, nodes |-> _out_order_traverse(root)]) IN
       outcome' = [raised |-> r.raised, value |-> NoneValue, node |-> None, nodes |-> r.nodes]
    /\ call' = Called("out_order_traverse", 0, NoneValue)
    /\ pre' = [root |-> root, size |-> size]
    /\ UNCHANGED <<treeVars, genVars>>
    /\ UNCHANGED <<root, size>>

clear ==
    /\ root' = None
    /\ size' = 0
    /\ outcome' = [raised |-> NoExc, value |-> NoneValue, node |-> None, nodes |-> <<>>]
    /\ call' = Called("clear", 0, NoneValue)
    /\ pre' = [root |-> root, size |-> size]
    /\ UNCHANGED <<treeVars, genVars>>

----------------------------------------------------------------------------
(* Operations on generic Trees *)

\* the Nodes a tree owns
NodesOf(h, _root) ==
    LET seq == recur_pre_order_traverse(h, _root) IN {seq[i] : i \in DOMAIN seq}

\* Objects that nothing refers to any more are left to the garbage collector
\* (Tree.clear): the heap keeps the Nodes the trees own and the lists those
\* Nodes refer to, in the order they were created.
Collected(h, ts) ==
    LET liveNodes == UNION {NodesOf(h, ts[t]._root) : t \in DOMAIN ts}
        liveLists == {h.nodes[n].children : n \in liveNodes}
        NodeRank(n) == Cardinality({m \in liveNodes : m <= n})
        ListRank(l) == Cardinality({m \in liveLists : m <= l})
        Ref(n) == IF n = NoNode THEN NoNode ELSE NodeRank(n)
    IN  [heap |->
            [nodes |-> [i \in 1..Cardinality(liveNodes) |->
                          LET n == CHOOSE m \in liveNodes : NodeRank(m) = i IN
                          [data |-> h.nodes[n].data,
                           children |-> ListRank(h.nodes[n].children)]],
             lists |-> [j \in 1..Cardinality(liveLists) |->
                          LET l == CHOOSE m \in liveLists : ListRank(m) = j IN
                          [k \in DOMAIN h.lists[l] |-> Ref(h.lists[l][k])]]],
         trees |-> [t \in DOMAIN ts |-> [ts[t] EXCEPT !._root = Ref(ts[t]._root)]]]

\* [Node(d), None, Node(d'), ...]: the entries of a new list, one new Node
\* for each TRUE of shape; payloads number the Nodes in order of creation
RECURSIVE NewEntries(_, _)
NewEntries(h, shape) ==
    IF shape = <<>>
    THEN [heap |-> h, entries |-> <<>>]
    ELSE IF Head(shape)
    THEN LET new == Node(h, Len(h.nodes))
             rest == NewEntries(new.heap, Tail(shape))
         IN  [heap |-> rest.heap, entries |-> <<new.node>> \o rest.entries]
    ELSE LET rest == NewEntries(h, Tail(shape))
         IN  [heap |-> rest.heap, entries |-> <<NoNode>> \o rest.entries]

Shapes == UNION {[1..n -> BOOLEAN] : n \in 1..MaxChildren}
Present(shape) == Cardinality({i \in DOMAIN shape : shape[i]})

Orders ==
    {[kind |-> "str", name |-> n] :
        n \in {"pre_order", "post_order", "breadth_first_order", "breadth_first",
               "in_order", "xyz", "", "recur_pre_order"}}
    \cup {NoOrder, [kind |-> "int", name |-> ""]}

\* tree._root = Node(d)
SetRoot(t) ==
    /\ trees[t]._root = NoNode
    /\ Len(heap.nodes) < MaxNodes
    /\ LET new == Node(heap, Len(heap.nodes)) IN
       /\ heap' = new.heap
       /\ trees' = [trees EXCEPT ![t]._root = new.node]
    /\ tcall' = TreeCalled("set_root", t, NoNode, NoOrder)
    /\ toutcome' = Nothing
    /\ tpre' = [heap |-> heap, trees |-> trees]
    /\ UNCHANGED <<bstVars, genVars>>

\* node.children = [Node(d), ...] for a Node of tree t that has no children yet
SetChildren(t, node, shape) ==
    /\ node \in NodesOf(heap, trees[t]._root)
    /\ Children(heap, node) = <<>>
    /\ Len(heap.nodes) + Present(shape) <= MaxNodes
    /\ LET new == NewEntries(heap, shape)
           assigned == [nodes |-> [new.heap.nodes EXCEPT
                                     ![node].children = Len(new.heap.lists) + 1],
                        lists |-> Append(new.heap.lists, new.entries)]
       IN  heap' = Collected(assigned, trees).heap
    /\ tcall' = TreeCalled("set_children", t, node, NoOrder)
    /\ toutcome' = Nothing
    /\ tpre' = [heap |-> heap, trees |-> trees]
    /\ UNCHANGED <<trees, bstVars, genVars>>

Tree_copy(t) ==
    /\ Len(trees) < MaxTrees
    /\ Len(heap.nodes) < MaxNodes
    /\ LET r == recur_copy(heap, trees[t]._root)
           new_tree == [_root |-> r.node, _size |-> r.size]
           kept == Collected(r.heap, Append(trees, new_tree))
       IN  /\ heap' = kept.heap
           /\ trees' = kept.trees
    /\ tcall' = TreeCalled("copy", t, NoNode, NoOrder)
    /\ toutcome' = TreeGave(NoExc, <<>>, Len(trees) + 1, 0)
    /\ tpre' = [heap |-> heap, trees |-> trees]
    /\ UNCHANGED <<bstVars, genVars>>

\* clear that forgets to reset the size counter
Tree_clear_keeps_size(t) ==
    /\ LET kept == Collected(heap, [trees EXCEPT ![t] = [_root |-> NoNode, _size |-> trees[t]._size]])
       IN  /\ heap' = kept.heap
           /\ trees' = kept.trees
    /\ tcall' = TreeCalled("clear", t, NoNode, NoOrder)
    /\ toutcome' = TreeGave(NoExc, <<>>, t, 0)
    /\ tpre' = [heap |-> heap, trees |-> trees]
    /\ UNCHANGED <<bstVars, genVars>>

Tree_clear(t) ==
    /\ LET kept == Collected(heap, [trees EXCEPT ![t] = [_root |-> NoNode, _size |-> 0]])
       IN  /\ heap' = kept.heap
           /\ trees' = kept.trees
    /\ tcall' = TreeCalled("clear", t, NoNode, NoOrder)
    /\ toutcome' = TreeGave(NoExc, <<>>, t, 0)
    /\ tpre' = [heap |-> heap, trees |-> trees]
    /\ UNCHANGED <<bstVars, genVars>>

Tree_traverse(t, order) ==
    /\ LET r == traverse(heap, trees[t]._root, order) IN
       toutcome' = TreeGave(r.raised, r.out, NoTree, 0)
    /\ tcall' = TreeCalled("traverse", t, NoNode, order)
    /\ tpre' = NotKept
    /\ UNCHANGED <<heap, trees, bstVars, genVars>>

\* tree.height
Tree_height(t) ==
    /\ LET r == recur_height(heap, trees[t]._root) IN
       toutcome' = TreeGave(r.raised, <<>>, NoTree, r.value)
    /\ tcall' = TreeCalled("height", t, NoNode, NoOrder)
    /\ tpre' = NotKept
    /\ UNCHANGED <<heap, trees, bstVars, genVars>>

NextTree ==
    \/ \E t \in DOMAIN trees : SetRoot(t)
    \/ \E t \in DOMAIN trees, node \in DOMAIN heap.nodes, shape \in Shapes :
          SetChildren(t, node, shape)
    \/ \E t \in DOMAIN trees : Tree_copy(t)
    \/ \E t \in DOMAIN trees : Tree_clear(t)

\* one tree, built and traversed
NextTraverse ==
    \/ SetRoot(1)
    \/ \E node \in DOMAIN heap.nodes, shape \in Shapes : SetChildren(1, node, shape)
    \/ \E order \in Orders : Tree_traverse(1, order)
    \/ Tree_height(1)

Next ==
    \/ \E key \in Keys, value \in Values : insert(key, value)
    \/ \E key \in Keys : find(key)
    \/ \E key \in Keys : delete(key)
    \/ delete_min_node
    \/ delete_max_node
    \/ find_min_node
    \/ find_max_node
    \/ height
    \/ in_order_traverse
    \/ out_order_traverse
    \/ clear

Spec == Init /\ [][Next]_vars

SpecTree == Init /\ [][NextTree]_vars

SpecTraverse == Init /\ [][NextTraverse]_vars

----------------------------------------------------------------------------
(* Reading a tree *)

NodeCount(node) == Len(_in_order_traverse(node))
KeysOf(nodes) == [i \in DOMAIN nodes |-> nodes[i].key]
TreeKeys(node) == {n.key : n \in {_in_order_traverse(node)[i] : i \in 1..NodeCount(node)}}
Ascending(s) == \A i \in 1..(Len(s) - 1) : s[i] < s[i + 1]
InOrderKeys(node) == KeysOf(_in_order_traverse(node))

RECURSIVE OrderedAtEveryNode(_)
OrderedAtEveryNode(node) ==
    \/ node = None
    \/ /\ \A k \in TreeKeys(node[1].left) : k < node[1].key
       /\ \A k \in TreeKeys(node[1].right) : k > node[1].key
       /\ OrderedAtEveryNode(node[1].left)
       /\ OrderedAtEveryNode(node[1].right)

\* the node of the tree that holds key, or None
RECURSIVE NodeOf(_, _)
NodeOf(node, key) ==
    IF node = None THEN None
    ELSE IF node[1].key = key THEN node
    ELSE IF NodeOf(node[1].left, key) # None THEN NodeOf(node[1].left, key)
    ELSE NodeOf(node[1].right, key)

\* on its way down from node, key is compared with a stored key it cannot
\* be ordered against
RECURSIVE MeetsUnorderable(_, _)
MeetsUnorderable(node, key) ==
    /\ node # None
    /\ key # node[1].key
    /\ \/ ~Orderable(key, node[1].key)
       \/ MeetsUnorderable(IF key < node[1].key THEN node[1].left ELSE node[1].right, key)

Returned == outcome.raised = NoExc
NotFound == outcome.raised = NoExc /\ outcome.value = NoneValue /\ outcome.node = None

----------------------------------------------------------------------------
(* Claims *)

\* C1: in every state reachable from an empty BinarySearchTree by insert,
\* delete, delete_min_node, delete_max_node and clear, the size counter
\* equals the number of nodes reachable from the root.
C1_SizeIsNodeCount == size = NodeCount(root)

\* C2: in_order traversal yields the stored keys in strictly ascending
\* order, and at every node all keys of the left subtree are smaller and all
\* keys of the right subtree are larger.
C2_InOrderAscending ==
    /\ Ascending(InOrderKeys(root))
    /\ OrderedAtEveryNode(root)

\* a delete has just spliced out a node that had both children
C2_Witness ==
    /\ call.op = "delete"
    /\ Returned
    /\ NodeOf(pre.root, call.key) # None
    /\ NodeOf(pre.root, call.key)[1].left # None
    /\ NodeOf(pre.root, call.key)[1].right # None
    /\ NodeCount(root) = NodeCount(pre.root) - 1

\* C3: on a non-empty tree delete_min_node removes exactly the smallest key
\* (the in-order key sequence loses its first element, size decreases by 1)
\* and delete_max_node exactly the largest (the sequence loses its last).
C3_DeleteMinMaxExact ==
    /\ (call.op = "delete_min_node" /\ pre.root # None) =>
          /\ InOrderKeys(root) = Tail(InOrderKeys(pre.root))
          /\ size = pre.size - 1
    /\ (call.op = "delete_max_node" /\ pre.root # None) =>
          /\ InOrderKeys(root) =
                SubSeq(InOrderKeys(pre.root), 1, NodeCount(pre.root) - 1)
          /\ size = pre.size - 1

\* what a generic tree shows: its size and what each supported order yields
SupportedOrders ==
    {[kind |-> "str", name |-> n] : n \in {"pre_order", "post_order", "breadth_first_order"}}
Outputs(h, tree) == [order \in SupportedOrders |-> traverse(h, tree._root, order)]
NewTree == Len(trees)

\* C4: copy() returns a tree that yields what the original yields, made of
\* new Nodes at every position, and changing the children of a Node reached
\* through one of the two trees changes neither the size nor what the other
\* tree yields.
C4_CopyIsIndependent ==
    /\ tcall.op = "copy" =>
          /\ Outputs(heap, trees[NewTree]) = Outputs(tpre.heap, tpre.trees[tcall.tree])
          /\ NodesOf(heap, trees[NewTree]._root)
                \cap NodesOf(heap, trees[tcall.tree]._root) = {}
    /\ tcall.op = "set_children" =>
          \A u \in DOMAIN trees \ {tcall.tree} :
              /\ trees[u]._size = tpre.trees[u]._size
              /\ Outputs(heap, trees[u]) = Outputs(tpre.heap, tpre.trees[u])

\* C5: the size of t.copy() is the number of Nodes reachable from the copy's
\* root, which is the number of Nodes of t (0 for an empty tree, 1 for a
\* single Node).
C5_CopySizeIsNodeCount ==
    tcall.op = "copy" =>
        /\ trees[NewTree]._size = Len(recur_pre_order_traverse(heap, trees[NewTree]._root))
        /\ trees[NewTree]._size =
              Len(recur_pre_order_traverse(tpre.heap, tpre.trees[tcall.tree]._root))

\* C6: after an insert(k, v) that returns, find(k) returns v; size grows by
\* exactly 1 if k was absent, and if k was present the value is overwritten
\* in place with size, keys and shape unchanged; every other key of k's type
\* maps to what it mapped to before.
C6_InsertThenFind ==
    (call.op = "insert" /\ Returned) =>
        /\ _find(root, call.key) = [raised |-> NoExc, value |-> call.value]
        /\ IF call.key \in TreeKeys(pre.root)
           THEN /\ size = pre.size
                /\ InOrderKeys(root) = InOrderKeys(pre.root)
                /\ root = AssignChild(pre.root, NodeOf(pre.root, call.key),
                                      "value", call.value)
           ELSE /\ size = pre.size + 1
                /\ TreeKeys(root) = TreeKeys(pre.root) \cup {call.key}
                /\ NodeCount(root) = NodeCount(pre.root) + 1
        /\ \A k \in Keys \ {call.key} :
              Orderable(k, call.key) => _find(root, k) = _find(pre.root, k)

\* an insert has just overwritten a different value below the root
C6_Witness ==
    /\ call.op = "insert"
    /\ Returned
    /\ call.key \in TreeKeys(pre.root)
    /\ call.key # pre.root[1].key
    /\ _find(pre.root, call.key).value # call.value

\* C7: delete(k) of a stored key k makes find(k) return not-found,
\* decrements size by exactly 1 and leaves every other stored key findable
\* with its previous value.
C7_DeleteRemoves ==
    (call.op = "delete" /\ Returned /\ call.key \in TreeKeys(pre.root)) =>
        /\ _find(root, call.key) = [raised |-> NoExc, value |-> NoneValue]
        /\ call.key \notin TreeKeys(root)
        /\ size = pre.size - 1
        /\ TreeKeys(root) = TreeKeys(pre.root) \ {call.key}
        /\ \A k \in TreeKeys(pre.root) \ {call.key} :
              _find(root, k) = _find(pre.root, k)

\* a delete has just removed a node with both children, which stored values
C7_Witness ==
    /\ call.op = "delete"
    /\ Returned
    /\ NodeOf(pre.root, call.key) # None
    /\ NodeOf(pre.root, call.key)[1].left # None
    /\ NodeOf(pre.root, call.key)[1].right # None
    /\ \A k \in TreeKeys(root) : _find(root, k).value # NoneValue

\* C8: find(k) of a key that is not stored (and can be ordered against the
\* stored keys), and find, find_min_node and find_max_node on an empty tree,
\* return the no-result value and raise nothing.
C8_AbsenceIsNoError ==
    /\ ( /\ call.op = "find"
         /\ call.key \notin TreeKeys(pre.root)
         /\ \A k \in TreeKeys(pre.root) : Orderable(call.key, k) ) => NotFound
    /\ ( /\ call.op \in {"find", "find_min_node", "find_max_node"}
         /\ pre.root = None ) => NotFound

\* find has just looked for an absent key in a tree of two or more nodes
C8_Witness ==
    /\ call.op = "find"
    /\ call.key \notin TreeKeys(pre.root)
    /\ NodeCount(pre.root) >= 2
    /\ NotFound

\* C9: insert, find or delete with a key that cannot be ordered against a
\* stored key it is compared with fails with the key-not-comparable
\* ValueError, never the raw TypeError, and leaves structure, values and size
\* as they were.
C9_NotComparable ==
    ( /\ call.op \in {"insert", "find", "delete"}
      /\ MeetsUnorderable(pre.root, call.key) ) =>
        /\ outcome.raised = ValueError
        /\ root = pre.root
        /\ size = pre.size

\* find has just been refused a str key by a tree of int keys
C9_Witness ==
    /\ call.op = "find"
    /\ MeetsUnorderable(pre.root, call.key)
    /\ NodeCount(pre.root) >= 2
    /\ outcome.raised = ValueError

\* C10: traverse(order) with an order that is not a supported order name
\* fails with the invalid-order ValueError and yields no payload.
C10_UnknownOrderIsValueError ==
    (tcall.op = "traverse" /\ tcall.order \notin SupportedOrders \cup {NoOrder}) =>
        /\ toutcome.raised.exc = "ValueError"
        /\ toutcome.out = <<>>

\* C11: clear() leaves the tree with size 0 and isEmpty() true, a read of
\* root then fails with the empty-tree KeyError, and clear() returns the tree
\* it was called on.
C11_ClearEmpties ==
    tcall.op = "clear" =>
        /\ Tree_size(trees[tcall.tree]) = 0
        /\ Tree_isEmpty(trees[tcall.tree])
        /\ Tree_root(heap, trees[tcall.tree]).raised.exc = "KeyError"
        /\ toutcome.raised = NoExc
        /\ toutcome.tree = tcall.tree

\* a tree that had Nodes and a size counter above 0 has just been cleared
C11_Witness ==
    /\ tcall.op = "clear"
    /\ tpre.trees[tcall.tree]._root # NoNode
    /\ Tree_size(tpre.trees[tcall.tree]) > 0
    /\ Len(recur_pre_order_traverse(tpre.heap, tpre.trees[tcall.tree]._root)) >= 2

----------------------------------------------------------------------------
(* The shape of a generic tree, read from its children lists *)

\* the Nodes of the heap that are entries of the children list of node
ChildSet(h, node) == {Children(h, node)[i] : i \in DOMAIN Children(h, node)} \ {NoNode}

\* the Node whose children list holds n, and the place of n in that list
ParentOf(h, n) == CHOOSE m \in DOMAIN h.nodes : n \in ChildSet(h, m)
PlaceOf(h, n) == CHOOSE i \in DOMAIN Children(h, ParentOf(h, n)) :
                    Children(h, ParentOf(h, n))[i] = n

\* the places to follow from the root of the tree to reach n
RECURSIVE PathTo(_, _, _)
PathTo(h, _root, n) ==
    IF n = _root THEN <<>>
    ELSE Append(PathTo(h, _root, ParentOf(h, n)), PlaceOf(h, n))

Depth(h, _root, n) == Len(PathTo(h, _root, n))

\* p comes before q, place by place
LeftOf(p, q) ==
    \E i \in DOMAIN p \cap DOMAIN q :
        /\ p[i] < q[i]
        /\ \A j \in 1..(i - 1) : p[j] = q[j]

\* the Nodes of the tree: the root and whatever has a parent among them
RECURSIVE Below(_, _)
Below(h, ns) ==
    LET more == ns \cup UNION {ChildSet(h, n) : n \in ns} IN
    IF more = ns THEN ns ELSE Below(h, more)

PresentNodes(h, _root) == IF _root = NoNode THEN {} ELSE Below(h, {_root})

\* the Node that carries payload d (payloads number the Nodes of one tree)
NodeWith(h, d) == CHOOSE n \in DOMAIN h.nodes : h.nodes[n].data = d

\* a sequence of payloads names every Node of the tree exactly once
EachOnce(h, _root, out) ==
    /\ Len(out) = Cardinality(PresentNodes(h, _root))
    /\ {NodeWith(h, out[i]) : i \in DOMAIN out} = PresentNodes(h, _root)

\* node.children = [Node(d), ...] on a heap
WithChildren(h, node, shape) ==
    LET new == NewEntries(h, shape) IN
    [nodes |-> [new.heap.nodes EXCEPT ![node].children = Len(new.heap.lists) + 1],
     lists |-> Append(new.heap.lists, new.entries)]

\* root 0 with children [1, 2, 3], node 1 with children [4]
ExampleHeap ==
    WithChildren(WithChildren(Node(EmptyHeap, 0).heap, 1, <<TRUE, TRUE, TRUE>>),
                 2, <<TRUE>>)

BreadthFirst == {NoOrder, [kind |-> "str", name |-> "breadth_first_order"]}

\* C12: breadth-first traversal of a generic Tree yields every present node
\* exactly once in level order: a node at a smaller depth comes before a node
\* at a larger depth, nodes of one depth come left to right by their parents
\* and their places in the children lists, and absent entries are skipped;
\* root 0 with children [1,2,3] and node 1 with child [4] yields 0,1,2,3,4.
C12_BreadthFirstLevelOrder ==
    /\ traverse(ExampleHeap, 1, NoOrder) = [raised |-> NoExc, out |-> <<0, 1, 2, 3, 4>>]
    /\ (tcall.op = "traverse" /\ tcall.order \in BreadthFirst) =>
         LET r == trees[tcall.tree]._root
             out == toutcome.out
             at(i) == NodeWith(heap, out[i])
         IN  /\ toutcome.raised = NoExc
             /\ EachOnce(heap, r, out)
             /\ \A i, j \in DOMAIN out :
                   i < j =>
                     \/ Depth(heap, r, at(i)) < Depth(heap, r, at(j))
                     \/ /\ Depth(heap, r, at(i)) = Depth(heap, r, at(j))
                        /\ LeftOf(PathTo(heap, r, at(i)), PathTo(heap, r, at(j)))

\* a breadth-first traversal of a tree with an absent child entry, where level
\* order differs from pre-order
C12_Witness ==
    /\ tcall.op = "traverse"
    /\ tcall.order \in BreadthFirst
    /\ Len(toutcome.out) = 4
    /\ toutcome.out # traverse(heap, trees[1]._root, [kind |-> "str", name |-> "pre_order"]).out
    /\ \E n \in PresentNodes(heap, trees[1]._root) :
          \E i \in DOMAIN Children(heap, n) : Children(heap, n)[i] = NoNode

\* the largest of a non-empty set of numbers
Max(S) == CHOOSE x \in S : \A y \in S : y <= x

\* height read from the children lists: -1 for no Node, else the largest
\* number of children steps from the root to a Node
ChildrenHeight(h, _root) ==
    IF _root = NoNode THEN -1
    ELSE Max({Depth(h, _root, n) : n \in PresentNodes(h, _root)})

\* C13: the height of a generic Tree is -1 when it is empty, 0 when its root
\* has no children, and otherwise 1 plus the largest height among the present
\* entries of the root's children list, recursively.
C13_GenericHeight ==
    tcall.op = "height" =>
        /\ toutcome.raised = NoExc
        /\ toutcome.value = ChildrenHeight(heap, trees[tcall.tree]._root)

Reverse(s) == [i \in DOMAIN s |-> s[Len(s) + 1 - i]]

\* C14: on every BinarySearchTree, the sequence out_order traversal yields is
\* the reverse of the sequence in_order traversal yields on the same tree.
C14_OutOrderIsReverse ==
    /\ call.op = "out_order_traverse" =>
          /\ outcome.raised = NoExc
          /\ root = pre.root
          /\ outcome.nodes = Reverse(_in_order_traverse(root))
    /\ call.op = "in_order_traverse" =>
          /\ outcome.raised = NoExc
          /\ root = pre.root
          /\ Reverse(outcome.nodes) = _out_order_traverse(root)

\* out_order traversal of a tree whose root has a left and a right subtree
C14_Witness ==
    /\ call.op = "out_order_traverse"
    /\ Len(outcome.nodes) >= 3
    /\ root[1].left # None
    /\ root[1].right # None

\* the number of levels of a set of subtrees: the nodes on the longest path
\* from one of their roots down to a leaf
RECURSIVE LevelCount(_)
LevelCount(subtrees) ==
    IF subtrees = {} THEN 0
    ELSE 1 + LevelCount(({s[1].left : s \in subtrees} \cup {s[1].right : s \in subtrees})
                            \ {None})

\* the tree after insert(k) for each k of keys, in order, from node
RECURSIVE Inserted(_, _)
Inserted(node, keys) ==
    IF keys = <<>> THEN node
    ELSE Inserted(_insert(node, Head(keys), NoneValue, 0).node, Tail(keys))

\* C15: BinarySearchTree.height is the number of nodes on the longest path
\* from the root to a leaf: 0 for an empty tree, 1 for a single node, 3 after
\* inserting 5,3,8,1,4 into an empty tree; it never exceeds size.
C15_HeightIsLongestPath ==
    /\ _height(Inserted(None, <<5, 3, 8, 1, 4>>)) = 3
    /\ call.op = "height" =>
          /\ outcome.raised = NoExc
          /\ outcome.value = LevelCount({root} \ {None})
          /\ root = None => outcome.value = 0
          /\ NodeCount(root) = 1 => outcome.value = 1
          /\ outcome.value <= size

\* height read on a tree of three nodes with two levels
C15_Witness ==
    /\ call.op = "height"
    /\ outcome.value = 2
    /\ NodeCount(root) = 3

Deletions == {"delete", "delete_min_node", "delete_max_node"}

\* C17: delete(k) for a key the tree does not hold, and delete,
\* delete_min_node and delete_max_node on an empty tree, leave the nodes,
\* their values and size as they were and raise no error; size is never
\* negative.
C17_AbsentDeleteChangesNothing ==
    /\ size >= 0
    /\ (/\ call.op = "delete"
        /\ call.key \notin TreeKeys(pre.root)
        /\ ~MeetsUnorderable(pre.root, call.key)) =>
           /\ outcome.raised = NoExc
           /\ root = pre.root
           /\ size = pre.size
    /\ (call.op \in Deletions /\ pre.root = None) =>
           /\ outcome.raised = NoExc
           /\ root = None
           /\ size = pre.size

\* delete of a key that a tree of two or more nodes does not hold
C17_Witness ==
    /\ call.op = "delete"
    /\ call.key \notin TreeKeys(pre.root)
    /\ ~MeetsUnorderable(pre.root, call.key)
    /\ NodeCount(pre.root) >= 2
    /\ outcome.raised = NoExc

\* a is above b on the path from the root to b
IsAncestor(h, _root, a, b) ==
    LET p == PathTo(h, _root, a)
        q == PathTo(h, _root, b)
    IN  Len(p) < Len(q) /\ SubSeq(q, 1, Len(p)) = p

PreOrder == [kind |-> "str", name |-> "pre_order"]
PostOrder == [kind |-> "str", name |-> "post_order"]

\* C18: pre_order and post_order traversal of a generic Tree each yield every
\* present node exactly once, skipping absent children; pre_order yields a
\* node before all of its descendants, post_order after all of them, and both
\* visit the subtrees of a node left to right by its children list.
C18_PreAndPostOrder ==
    (tcall.op = "traverse" /\ tcall.order \in {PreOrder, PostOrder}) =>
        LET r == trees[tcall.tree]._root
            out == toutcome.out
            at(i) == NodeWith(heap, out[i])
        IN  /\ toutcome.raised = NoExc
            /\ EachOnce(heap, r, out)
            /\ \A i, j \in DOMAIN out :
                  /\ IsAncestor(heap, r, at(i), at(j)) =>
                        IF tcall.order = PreOrder THEN i < j ELSE j < i
                  /\ LeftOf(PathTo(heap, r, at(i)), PathTo(heap, r, at(j))) => i < j

\* a post_order traversal of four nodes on three levels, one child entry absent
C18_Witness ==
    /\ tcall.op = "traverse"
    /\ tcall.order = PostOrder
    /\ Len(toutcome.out) = 4
    /\ ChildrenHeight(heap, trees[1]._root) = 2
    /\ \E n \in PresentNodes(heap, trees[1]._root) :
          \E i \in DOMAIN Children(heap, n) : Children(heap, n)[i] = NoNode

----------------------------------------------------------------------------
(* in_order traversal consumed one node at a time *)

\* A generator frame refers to the node object it was started on.  Objects
\* of a tree that only grows are told apart by their keys: a reference is
\* <<key>>, or <<>> for None, and is read in the tree as it is now.
Ref(node) == IF node = None THEN <<>> ELSE <<node[1].key>>
Deref(tree, ref) == IF ref = <<>> THEN None ELSE NodeOf(tree, ref[1])

\* Enter: _in_order_traverse(ref) is started and runs to the next yield.
\* Return: the generator the innermost frame delegates to is exhausted.
\* Both give [frames, yield]: yield is <<key>>, or <<>> on StopIteration.
RECURSIVE Enter(_, _, _)
RECURSIVE Return(_, _)
Enter(tree, frames, ref) ==
    IF ref = <<>>
    THEN Return(tree, frames)
    ELSE Enter(tree, Append(frames, [key |-> ref[1], at |-> "left"]),
               Ref(Deref(tree, ref)[1].left))

Return(tree, frames) ==
    IF frames = <<>>
    THEN [frames |-> <<>>, yield |-> <<>>]
    ELSE LET top == frames[Len(frames)] IN
         IF top.at = "left"
         THEN [frames |-> [frames EXCEPT ![Len(frames)].at = "node"], yield |-> <<top.key>>]
         ELSE Return(tree, SubSeq(frames, 1, Len(frames) - 1))

\* a generator that ends a frame right after its yield
Resume_without_right(tree, frames) ==
    Return(tree, [frames EXCEPT ![Len(frames)].at = "right"])

\* the innermost frame goes on after its yield node
Resume(tree, frames) ==
    Enter(tree, [frames EXCEPT ![Len(frames)].at = "right"],
          Ref(Deref(tree, <<frames[Len(frames)].key>>)[1].right))

\* next(generator): [gen, yield]
next(tree, g) ==
    LET r == IF g.status = "created"
             THEN Enter(tree, <<>>, g.start)
             ELSE Resume(tree, g.frames)
    IN  [gen |-> [status |-> IF r.yield = <<>> THEN "done" ELSE "suspended",
                  start |-> g.start,
                  frames |-> r.frames],
         yield |-> r.yield]

Live == {"created", "suspended"}

\* g = bst.in_order_traverse(): self.root is read now, nothing runs yet
StartInOrder ==
    /\ gen.status \notin Live
    /\ gen' = [status |-> "created", start |-> Ref(root), frames |-> <<>>]
    /\ yielded' = <<>>
    /\ inserted' = {}
    /\ call' = Called("in_order_traverse", 0, NoneValue)
    /\ outcome' = [raised |-> NoExc, value |-> NoneValue, node |-> None, nodes |-> <<>>]
    /\ pre' = [root |-> root, size |-> size]
    /\ UNCHANGED <<root, size, treeVars>>

\* next(g)
GenNext ==
    /\ gen.status \in Live
    /\ LET r == next(root, gen) IN
       /\ gen' = r.gen
       /\ yielded' = yielded \o r.yield
    /\ call' = Called("next", 0, NoneValue)
    /\ outcome' = [raised |-> NoExc, value |-> NoneValue, node |-> None, nodes |-> <<>>]
    /\ pre' = [root |-> root, size |-> size]
    /\ UNCHANGED <<root, size, inserted, treeVars>>

\* bst.insert(key), before, between or after the calls of next(g)
InsertDuring(key) ==
    /\ size < MaxSize
    /\ gen.status \in Live => Cardinality(inserted) < MaxInserts
    /\ LET r == decorate_all_methods(_insert(root, key, NoneValue, size)) IN
       /\ root' = r.node
       /\ size' = r.size
       /\ outcome' = [raised |-> r.raised, value |-> NoneValue, node |-> None, nodes |-> <<>>]
    /\ call' = Called("insert", key, NoneValue)
    /\ pre' = [root |-> root, size |-> size]
    /\ inserted' = IF gen.status \in Live
                   THEN inserted \cup {[key |-> key, after |-> Len(yielded),
                                        new |-> key \notin TreeKeys(root)]}
                   ELSE inserted
    /\ UNCHANGED <<gen, yielded, treeVars>>

NextGen ==
    \/ StartInOrder
    \/ GenNext
    \/ \E key \in IntKeys : InsertDuring(key)

SpecGen == Init /\ [][NextGen]_vars

\* the keys yielded after an insert was made
Remainder(rec) ==
    {yielded[i] : i \in (rec.after + 1)..Len(yielded)}

LargerThanYielded(rec) == \A i \in 1..rec.after : yielded[i] < rec.key

\* C16: an in_order traversal sees the tree as it is at each step.  A key
\* inserted while the traversal is partially consumed that is larger than
\* every key yielded so far is yielded by the rest of the traversal; however
\* inserts and steps interleave, the keys yielded are strictly ascending; a
\* key inserted below the last key yielded is not yielded by the traversal.
C16_NoSnapshotIsolation ==
    /\ Ascending(yielded)
    /\ \A rec \in inserted :
          /\ (gen.status = "done" /\ rec.after >= 1 /\ LargerThanYielded(rec)) =>
                rec.key \in Remainder(rec)
          /\ (rec.after >= 1 /\ rec.key < yielded[rec.after]) =>
                rec.key \notin Remainder(rec)

\* a finished traversal during which, after its first yield, one new key was
\* inserted above the keys yielded so far and one new key below the last
C16_Witness ==
    /\ gen.status = "done"
    /\ \E rec \in inserted :
          rec.new /\ rec.after >= 1 /\ LargerThanYielded(rec) /\ rec.key \in Remainder(rec)
    /\ \E rec \in inserted :
          rec.new /\ rec.after >= 1 /\ rec.key < yielded[rec.after]

====
